---- MODULE Spec2Model ----
(***************************************************************************)
(* Model of the Encore configuration bootstrap,                            *)
(* runtime/appruntime/exported/config/parse.go: ParseRuntime and           *)
(* ParseStatic.  Strings and byte slices are sequences of byte values      *)
(* (0..255); the library calls the loaders make (encoding/base64,          *)
(* encoding/json, net/url) are operators that compute on those bytes.      *)
(***************************************************************************)
EXTENDS Integers, Sequences, FiniteSets, TLC

\* Longest blob of the exhaustively enumerated short blobs (BlobAlphabet).
MaxBlobLen == 4

---------------------------------------------------------------------------
\* Byte-string helpers (Go string / []byte operations).

\* s[from:] with a 1-based first index
Drop(s, from) == SubSeq(s, from, Len(s))

\* strings.HasPrefix
HasPrefix(s, p) == Len(s) >= Len(p) /\ SubSeq(s, 1, Len(p)) = p

\* strings.IndexByte, 1-based; 0 when absent
IndexByte(s, c) ==
    IF \E i \in 1..Len(s) : s[i] = c
    THEN CHOOSE i \in 1..Len(s) : s[i] = c /\ \A j \in 1..(i - 1) : s[j] # c
    ELSE 0

\* strings.LastIndexByte, 1-based; 0 when absent
LastIndexByte(s, c) ==
    IF \E i \in 1..Len(s) : s[i] = c
    THEN CHOOSE i \in 1..Len(s) : s[i] = c /\ \A j \in (i + 1)..Len(s) : s[j] # c
    ELSE 0

\* strings.Count for a single byte
CountByte(s, c) == Cardinality({i \in 1..Len(s) : s[i] = c})

IsDigit(c) == c >= 48 /\ c <= 57
IsUpper(c) == c >= 65 /\ c <= 90
IsLower(c) == c >= 97 /\ c <= 122
IsAlpha(c) == IsUpper(c) \/ IsLower(c)
IsHex(c) == IsDigit(c) \/ (c >= 97 /\ c <= 102) \/ (c >= 65 /\ c <= 70)
HexVal(c) == IF IsDigit(c) THEN c - 48 ELSE IF IsLower(c) THEN c - 87 ELSE c - 55

---------------------------------------------------------------------------
\* encoding/base64

\* Error values: NoErr is Go's nil error.
NoErr == "nil"
CorruptInputError == "base64.CorruptInputError"

\* The two encodings the loaders use.  pad is the padding byte, -1 for
\* base64.NoPadding; c62 and c63 are the last two alphabet characters.
StdEncoding == [c62 |-> 43, c63 |-> 47, pad |-> 61]
RawURLEncoding == [c62 |-> 45, c63 |-> 95, pad |-> -1]

\* decodeMap: the 6-bit value of an alphabet character, -1 for any other byte
B64Value(enc, c) ==
    IF IsUpper(c) THEN c - 65
    ELSE IF IsLower(c) THEN c - 71
    ELSE IF IsDigit(c) THEN c + 4
    ELSE IF c = enc.c62 THEN 62
    ELSE IF c = enc.c63 THEN 63
    ELSE -1

\* the alphabet character of a 6-bit value
B64Char(enc, v) ==
    IF v < 26 THEN v + 65
    ELSE IF v < 52 THEN v + 71
    ELSE IF v < 62 THEN v - 4
    ELSE IF v = 62 THEN enc.c62
    ELSE enc.c63

\* The decoder skips '\r' and '\n' wherever they occur.
IsNewline(c) == c = 10 \/ c = 13
StripNewlines(s) == SelectSeq(s, LAMBDA c : ~IsNewline(c))

\* Number of leading alphabet characters among the first four of s
QuantumLen(enc, s) ==
    LET n == IF Len(s) < 4 THEN Len(s) ELSE 4
        bad == {i \in 1..n : B64Value(enc, s[i]) = -1}
    IN IF bad = {} THEN n
       ELSE (CHOOSE i \in bad : \A j \in bad : i <= j) - 1

\* The bytes of a quantum of k (2..4) characters: k - 1 bytes.  Bits that do
\* not fill a byte are dropped (the encodings are not Strict).
QuantumBytes(enc, s, k) ==
    LET v(i) == IF i <= k THEN B64Value(enc, s[i]) ELSE 0
        val == v(1) * 262144 + v(2) * 4096 + v(3) * 64 + v(4)
        all == <<val \div 65536, (val \div 256) % 256, val % 256>>
    IN SubSeq(all, 1, k - 1)

\* Encoding.decodeQuantum, repeated over the input (newlines removed)
RECURSIVE DecodeQuanta(_, _)
DecodeQuanta(enc, s) ==
    IF s = <<>> THEN [bytes |-> <<>>, err |-> NoErr]
    ELSE
    LET k == QuantumLen(enc, s)
    IN IF k = 4
       THEN LET rest == DecodeQuanta(enc, Drop(s, 5))
            IN [bytes |-> QuantumBytes(enc, s, 4) \o rest.bytes, err |-> rest.err]
       ELSE IF k = Len(s)
       THEN \* input ended inside a quantum
            IF k = 1 \/ enc.pad # -1
            THEN [bytes |-> <<>>, err |-> CorruptInputError]
            ELSE [bytes |-> QuantumBytes(enc, s, k), err |-> NoErr]
       ELSE IF enc.pad = -1 \/ s[k + 1] # enc.pad
       THEN \* a byte outside the alphabet that is not padding
            [bytes |-> <<>>, err |-> CorruptInputError]
       ELSE IF k < 2
       THEN \* padding in the first two positions of a quantum
            [bytes |-> <<>>, err |-> CorruptInputError]
       ELSE IF k = 2 /\ (Len(s) < 4 \/ s[4] # enc.pad)
       THEN \* "xx=" needs a second padding byte
            [bytes |-> <<>>, err |-> CorruptInputError]
       ELSE IF Len(s) > 4
       THEN \* trailing garbage after the padding: the quantum is still written
            [bytes |-> QuantumBytes(enc, s, k), err |-> CorruptInputError]
       ELSE [bytes |-> QuantumBytes(enc, s, k), err |-> NoErr]

\* Encoding.DecodeString
DecodeString(enc, s) == DecodeQuanta(enc, StripNewlines(s))

\* Encoding.EncodeToString: what the deploy tooling applies to a payload
RECURSIVE EncodeToString(_, _)
EncodeToString(enc, b) ==
    IF b = <<>> THEN <<>>
    ELSE
    LET n == IF Len(b) < 3 THEN Len(b) ELSE 3
        byte(i) == IF i <= n THEN b[i] ELSE 0
        val == byte(1) * 65536 + byte(2) * 256 + byte(3)
        chars == <<B64Char(enc, val \div 262144), B64Char(enc, (val \div 4096) % 64),
                   B64Char(enc, (val \div 64) % 64), B64Char(enc, val % 64)>>
    IN IF n = 3 THEN chars \o EncodeToString(enc, Drop(b, 4))
       ELSE SubSeq(chars, 1, n + 1)
            \o (IF enc.pad = -1 THEN <<>> ELSE [i \in 1..(3 - n) |-> enc.pad])

---------------------------------------------------------------------------
\* encoding/json: Unmarshal into a struct of string and bool fields

SyntaxError == "json.SyntaxError"
UnmarshalTypeError == "json.UnmarshalTypeError"

\* the byte at 1-based position i, -1 past the end
At(s, i) == IF i >= 1 /\ i <= Len(s) THEN s[i] ELSE -1

\* isSpace of the scanner: ' ', '\t', '\r', '\n'
IsSpace(c) == c = 32 \/ c = 9 \/ c = 13 \/ c = 10

\* first position at or after i that holds no white space (Len(s) + 1 at the end)
SkipSpace(s, i) ==
    LET non == {j \in i..Len(s) : ~IsSpace(s[j])}
    IN IF non = {} THEN Len(s) + 1 ELSE CHOOSE j \in non : \A k \in non : j <= k

\* first position at or after i that holds no digit
SkipDigits(s, i) ==
    LET non == {j \in i..Len(s) : ~IsDigit(s[j])}
    IN IF non = {} THEN Len(s) + 1 ELSE CHOOSE j \in non : \A k \in non : j <= k

\* UTF-8 encoding of a \uXXXX escape; a surrogate half becomes U+FFFD
\* (surrogate pairs are not combined)
EncodeRune(cp) ==
    IF cp < 128 THEN <<cp>>
    ELSE IF cp < 2048 THEN <<192 + (cp \div 64), 128 + (cp % 64)>>
    ELSE IF cp >= 55296 /\ cp <= 57343 THEN <<239, 191, 189>>
    ELSE <<224 + (cp \div 4096), 128 + ((cp \div 64) % 64), 128 + (cp % 64)>>

\* the byte a single-character escape stands for, -1 when the escape is invalid
EscapeByte(c) ==
    CASE c = 34 -> 34 [] c = 92 -> 92 [] c = 47 -> 47 [] c = 98 -> 8
      [] c = 102 -> 12 [] c = 110 -> 10 [] c = 114 -> 13 [] c = 116 -> 9
      [] OTHER -> -1

\* The characters of a string literal from position i (after the opening
\* quote) up to the closing quote: i is the position after the literal.
\* Bytes >= 0x80 are copied (the input is taken to be valid UTF-8).
RECURSIVE ScanString(_, _, _)
ScanString(s, i, acc) ==
    LET c == At(s, i)
    IN IF c = -1 \/ c < 32 THEN [ok |-> FALSE, i |-> i, s |-> acc]
       ELSE IF c = 34 THEN [ok |-> TRUE, i |-> i + 1, s |-> acc]
       ELSE IF c # 92 THEN ScanString(s, i + 1, Append(acc, c))
       ELSE IF At(s, i + 1) = 117
       THEN IF \A j \in (i + 2)..(i + 5) : At(s, j) # -1 /\ IsHex(s[j])
            THEN ScanString(s, i + 6,
                     acc \o EncodeRune(HexVal(s[i + 2]) * 4096 + HexVal(s[i + 3]) * 256
                                       + HexVal(s[i + 4]) * 16 + HexVal(s[i + 5])))
            ELSE [ok |-> FALSE, i |-> i, s |-> acc]
       ELSE IF EscapeByte(At(s, i + 1)) # -1
       THEN ScanString(s, i + 2, Append(acc, EscapeByte(s[i + 1])))
       ELSE [ok |-> FALSE, i |-> i, s |-> acc]

\* A number literal at position i:
\* -? (0 | [1-9][0-9]*) (\.[0-9]+)? ([eE][+-]?[0-9]+)?
ScanNumber(s, i) ==
    LET a == IF At(s, i) = 45 THEN i + 1 ELSE i
        b == IF At(s, a) = 48 THEN a + 1 ELSE SkipDigits(s, a)
        c == IF At(s, b) = 46 THEN SkipDigits(s, b + 1) ELSE b
        fracOk == At(s, b) # 46 \/ c > b + 1
        e == IF At(s, c) = 101 \/ At(s, c) = 69
             THEN (IF At(s, c + 1) = 43 \/ At(s, c + 1) = 45 THEN c + 2 ELSE c + 1)
             ELSE c
        d == IF e = c THEN c ELSE SkipDigits(s, e)
        expOk == e = c \/ d > e
    IN [ok |-> b > a /\ fracOk /\ expOk, i |-> d]

LitTrue == <<116, 114, 117, 101>>
LitFalse == <<102, 97, 108, 115, 101>>
LitNull == <<110, 117, 108, 108>>

\* A token of the input: its kind t (a structural character, "string",
\* "number", "bool", "null", or "invalid" for bytes that begin no token),
\* the position i after it, the bytes s of a string, the value b of a bool.
Token(t, i, s, b) == [t |-> t, i |-> i, s |-> s, b |-> b]

StringToken(r) == Token(IF r.ok THEN "string" ELSE "invalid", r.i, r.s, FALSE)
NumberToken(r) == Token(IF r.ok THEN "number" ELSE "invalid", r.i, <<>>, FALSE)

\* the token that starts at position i (no white space there)
TokenAt(s, i) ==
    LET c == At(s, i)
    IN CASE c = 123 -> Token("{", i + 1, <<>>, FALSE)
         [] c = 125 -> Token("}", i + 1, <<>>, FALSE)
         [] c = 91 -> Token("[", i + 1, <<>>, FALSE)
         [] c = 93 -> Token("]", i + 1, <<>>, FALSE)
         [] c = 58 -> Token(":", i + 1, <<>>, FALSE)
         [] c = 44 -> Token(",", i + 1, <<>>, FALSE)
         [] c = 34 -> StringToken(ScanString(s, i + 1, <<>>))
         [] c = 45 \/ IsDigit(c) -> NumberToken(ScanNumber(s, i))
         [] c = 116 /\ HasPrefix(Drop(s, i), LitTrue) -> Token("bool", i + 4, <<>>, TRUE)
         [] c = 102 /\ HasPrefix(Drop(s, i), LitFalse) -> Token("bool", i + 5, <<>>, FALSE)
         [] c = 110 /\ HasPrefix(Drop(s, i), LitNull) -> Token("null", i + 4, <<>>, FALSE)
         [] OTHER -> Token("invalid", i, <<>>, FALSE)

\* The tokens of the input from position i on, white space between them
\* skipped; an invalid token ends the sequence.
RECURSIVE Tokenize(_, _, _)
TokenizeFrom(s, tok, acc) ==
    IF tok.t = "invalid" THEN Append(acc, tok) ELSE Tokenize(s, tok.i, Append(acc, tok))
Tokenize(s, i, acc) ==
    IF SkipSpace(s, i) > Len(s) THEN acc
    ELSE TokenizeFrom(s, TokenAt(s, SkipSpace(s, i)), acc)

\* the kind of the value a token begins
ValueKind(tok) ==
    CASE tok.t = "{" -> "object" [] tok.t = "[" -> "array" [] OTHER -> tok.t

\* what the scanner expects after a value, given the open containers
AfterValue(stack) == IF stack = <<>> THEN "end" ELSE "commaOrClose"

\* The scanner as a pushdown automaton over the tokens: stack holds the open
\* containers ("o" object, "a" array), expect what may come next.  The
\* members of the top-level object are collected in m, each with its key k
\* and the kind, string bytes and bool of its value; top is the kind of the
\* top-level value.
RECURSIVE ScanTokens(_, _, _, _, _, _, _)
ScanTokens(toks, i, stack, expect, top, key, m) ==
    IF i > Len(toks) THEN [ok |-> expect = "end", t |-> top, m |-> m]
    ELSE
    LET tok == toks[i]
        depth == Len(stack)
        pop == SubSeq(stack, 1, depth - 1)
        fail == [ok |-> FALSE, t |-> top, m |-> m]
        top1 == IF depth = 0 THEN ValueKind(tok) ELSE top
        m1 == IF stack = <<"o">>
              THEN Append(m, [k |-> key, t |-> ValueKind(tok), s |-> tok.s, b |-> tok.b])
              ELSE m
    IN CASE expect \in {"value", "valueOrClose"}
              /\ tok.t \in {"string", "number", "bool", "null"} ->
                ScanTokens(toks, i + 1, stack, AfterValue(stack), top1, key, m1)
         [] expect \in {"value", "valueOrClose"} /\ tok.t = "{" ->
                ScanTokens(toks, i + 1, Append(stack, "o"), "keyOrClose", top1, key, m1)
         [] expect \in {"value", "valueOrClose"} /\ tok.t = "[" ->
                ScanTokens(toks, i + 1, Append(stack, "a"), "valueOrClose", top1, key, m1)
         [] expect = "valueOrClose" /\ tok.t = "]" ->
                ScanTokens(toks, i + 1, pop, AfterValue(pop), top, key, m)
         [] expect = "keyOrClose" /\ tok.t = "}" ->
                ScanTokens(toks, i + 1, pop, AfterValue(pop), top, key, m)
         [] expect \in {"key", "keyOrClose"} /\ tok.t = "string" ->
                ScanTokens(toks, i + 1, stack, "colon", top,
                           IF depth = 1 THEN tok.s ELSE key, m)
         [] expect = "colon" /\ tok.t = ":" ->
                ScanTokens(toks, i + 1, stack, "value", top, key, m)
         [] expect = "commaOrClose" /\ tok.t = "," ->
                ScanTokens(toks, i + 1, stack,
                           IF stack[depth] = "o" THEN "key" ELSE "value", top, key, m)
         [] expect = "commaOrClose" /\ tok.t = "}" /\ stack[depth] = "o" ->
                ScanTokens(toks, i + 1, pop, AfterValue(pop), top, key, m)
         [] expect = "commaOrClose" /\ tok.t = "]" /\ stack[depth] = "a" ->
                ScanTokens(toks, i + 1, pop, AfterValue(pop), top, key, m)
         [] OTHER -> fail

\* checkValid and the decoder's scan: one value, white space around it
ParseJSON(data) ==
    ScanTokens(Tokenize(data, 1, <<>>), 1, <<>>, "value", "invalid", <<>>, <<>>)

\* foldName, on ASCII: upper case
FoldName(k) == [i \in 1..Len(k) |-> IF IsLower(k[i]) THEN k[i] - 32 ELSE k[i]]

\* The struct field (index into fields) a key selects: an exact match of the
\* name first, a case-insensitive one otherwise; 0 when there is none.
FieldIndex(fields, k) ==
    LET exact == {i \in 1..Len(fields) : fields[i].key = k}
        fold == {i \in 1..Len(fields) : FoldName(fields[i].key) = FoldName(k)}
        first(S) == CHOOSE i \in S : \A j \in S : i <= j
    IN IF exact # {} THEN first(exact)
       ELSE IF fold # {} THEN first(fold)
       ELSE 0

\* The zero value of a struct with these fields
ZeroValue(fields) ==
    [n \in {fields[i].name : i \in 1..Len(fields)} |->
        LET f == CHOOSE f \in {fields[i] : i \in 1..Len(fields)} : f.name = n
        IN IF f.kind = "string" THEN <<>> ELSE FALSE]

\* decodeState.object on a struct: members are stored in order (a later
\* duplicate overwrites); null leaves a field alone; a value of the wrong
\* kind is recorded as the first saved error and decoding goes on.
RECURSIVE StoreMembers(_, _, _, _)
StoreMembers(fields, ms, cfg, err) ==
    IF ms = <<>> THEN [cfg |-> cfg, err |-> err]
    ELSE
    LET m == Head(ms)
        fi == FieldIndex(fields, m.k)
    IN IF fi = 0 \/ m.t = "null" THEN StoreMembers(fields, Tail(ms), cfg, err)
       ELSE IF fields[fi].kind = "string" /\ m.t = "string"
       THEN StoreMembers(fields, Tail(ms), [cfg EXCEPT ![fields[fi].name] = m.s], err)
       ELSE IF fields[fi].kind = "bool" /\ m.t = "bool"
       THEN StoreMembers(fields, Tail(ms), [cfg EXCEPT ![fields[fi].name] = m.b], err)
       ELSE StoreMembers(fields, Tail(ms), cfg,
                         IF err = NoErr THEN UnmarshalTypeError ELSE err)

\* decodeState.value on the struct, given the scanned input r
StoreValue(fields, r) ==
    IF ~r.ok THEN [cfg |-> ZeroValue(fields), err |-> SyntaxError]
    ELSE IF r.t = "null" THEN [cfg |-> ZeroValue(fields), err |-> NoErr]
    ELSE IF r.t = "object" THEN StoreMembers(fields, r.m, ZeroValue(fields), NoErr)
    ELSE [cfg |-> ZeroValue(fields), err |-> UnmarshalTypeError]

\* json.Unmarshal(data, &cfg) with cfg the zero value of the struct
Unmarshal(data, fields) == StoreValue(fields, ParseJSON(data))

---------------------------------------------------------------------------
\* net/url: Parse, reduced to whether it reports an error

URLError == "url.Error"

\* stringContainsCTLByte
ContainsCTLByte(s) == \E i \in 1..Len(s) : s[i] < 32 \/ s[i] = 127

\* strings.Cut at the first byte c: the parts before and after it
CutBefore(s, c) == IF IndexByte(s, c) = 0 THEN s ELSE SubSeq(s, 1, IndexByte(s, c) - 1)
CutAfter(s, c) == IF IndexByte(s, c) = 0 THEN <<>> ELSE Drop(s, IndexByte(s, c) + 1)

\* shouldEscape(c, encodeHost): the bytes a host may not hold unescaped
\* (letters, digits, !$&'()*+,;=:[]<>" and -_.~ may appear)
HostPunct == {33, 36, 38, 39, 40, 41, 42, 43, 44, 59, 61, 58, 91, 93, 60, 62, 34,
              45, 95, 46, 126}
ShouldEscapeHost(c) == ~(IsAlpha(c) \/ IsDigit(c) \/ c \in HostPunct)

\* unescape reports an error for a '%' not followed by two hex digits; in
\* host mode also for an escape below %80 other than %25 and for a byte
\* that a host may not hold.  mode is "host", "zone" or "other".
UnescapeOK(s, mode) ==
    \A i \in 1..Len(s) :
        IF s[i] = 37
        THEN /\ i + 2 <= Len(s) /\ IsHex(s[i + 1]) /\ IsHex(s[i + 2])
             /\ (mode = "host" /\ HexVal(s[i + 1]) < 8) => SubSeq(s, i, i + 2) = <<37, 50, 53>>
        ELSE (mode \in {"host", "zone"} /\ s[i] < 128) => ~ShouldEscapeHost(s[i])

\* getScheme: err when the URL starts with ':'; otherwise the scheme (may be
\* empty) and the rest
GetScheme(rawURL) ==
    LET stop == {i \in 1..Len(rawURL) :
                    \/ ~(IsAlpha(rawURL[i]) \/ IsDigit(rawURL[i]) \/ rawURL[i] \in {43, 45, 46})
                    \/ (i = 1 /\ ~IsAlpha(rawURL[i]))}
        i == IF stop = {} THEN 0 ELSE CHOOSE j \in stop : \A k \in stop : j <= k
    IN IF i = 0 \/ rawURL[i] # 58 THEN [ok |-> TRUE, scheme |-> <<>>, rest |-> rawURL]
       ELSE IF i = 1 THEN [ok |-> FALSE, scheme |-> <<>>, rest |-> <<>>]
       ELSE [ok |-> TRUE, scheme |-> SubSeq(rawURL, 1, i - 1), rest |-> Drop(rawURL, i + 1)]

\* validOptionalPort: empty, or ':' followed by digits only
ValidOptionalPort(port) ==
    port = <<>> \/ (port[1] = 58 /\ \A i \in 2..Len(port) : IsDigit(port[i]))

\* validUserinfo
UserinfoPunct == {45, 46, 95, 58, 126, 33, 36, 38, 39, 40, 41, 42, 43, 44, 59, 61, 37, 64}
ValidUserinfo(s) == \A i \in 1..Len(s) : IsAlpha(s[i]) \/ IsDigit(s[i]) \/ s[i] \in UserinfoPunct

\* parseHost
ParseHostOK(host) ==
    IF HasPrefix(host, <<91>>)
    THEN LET close == LastIndexByte(host, 93)
             inner == SubSeq(host, 1, close - 1)
             zone == IF \E i \in 1..(Len(inner) - 2) : SubSeq(inner, i, i + 2) = <<37, 50, 53>>
                     THEN CHOOSE i \in 1..(Len(inner) - 2) :
                              /\ SubSeq(inner, i, i + 2) = <<37, 50, 53>>
                              /\ \A j \in 1..(i - 1) : SubSeq(inner, j, j + 2) # <<37, 50, 53>>
                     ELSE 0
         IN /\ close # 0
            /\ ValidOptionalPort(Drop(host, close + 1))
            /\ IF zone # 0
               THEN /\ UnescapeOK(SubSeq(host, 1, zone - 1), "host")
                    /\ UnescapeOK(SubSeq(host, zone, close - 1), "zone")
                    /\ UnescapeOK(Drop(host, close), "host")
               ELSE UnescapeOK(host, "host")
    ELSE /\ LastIndexByte(host, 58) # 0 => ValidOptionalPort(Drop(host, LastIndexByte(host, 58)))
         /\ UnescapeOK(host, "host")

\* parseAuthority
ParseAuthorityOK(authority) ==
    LET at == LastIndexByte(authority, 64)
        userinfo == SubSeq(authority, 1, at - 1)
    IN IF at = 0 THEN ParseHostOK(authority)
       ELSE /\ ParseHostOK(Drop(authority, at + 1))
            /\ ValidUserinfo(userinfo)
            /\ UnescapeOK(userinfo, "other")

\* parse(rawURL, viaRequest = false)
ParseNoFragmentOK(rawURL) ==
    IF ContainsCTLByte(rawURL) THEN FALSE
    ELSE IF rawURL = <<>> \/ rawURL = <<42>> THEN TRUE
    ELSE
    LET sch == GetScheme(rawURL)
        rest == IF sch.rest # <<>> /\ sch.rest[Len(sch.rest)] = 63 /\ CountByte(sch.rest, 63) = 1
                THEN SubSeq(sch.rest, 1, Len(sch.rest) - 1)
                ELSE CutBefore(sch.rest, 63)
        hasAuthority == HasPrefix(rest, <<47, 47>>)
                        /\ (sch.scheme # <<>> \/ ~HasPrefix(rest, <<47, 47, 47>>))
        authority == CutBefore(Drop(rest, 3), 47)
        path == IF hasAuthority THEN Drop(rest, 3 + Len(authority)) ELSE rest
    IN IF ~sch.ok THEN FALSE
       ELSE IF ~HasPrefix(rest, <<47>>)
       THEN \* an opaque URL when there is a scheme; otherwise the first
            \* path segment cannot contain a colon
            IF sch.scheme # <<>> THEN TRUE
            ELSE IF IndexByte(CutBefore(rest, 47), 58) # 0 THEN FALSE
            ELSE UnescapeOK(path, "other")
       ELSE /\ hasAuthority => ParseAuthorityOK(authority)
            /\ UnescapeOK(path, "other")

\* url.Parse(rawURL): the error it returns
URLParse(rawURL) ==
    IF /\ ParseNoFragmentOK(CutBefore(rawURL, 35))
       /\ UnescapeOK(CutAfter(rawURL, 35), "other")
    THEN NoErr
    ELSE URLError

---------------------------------------------------------------------------
\* The configuration structs.  Their declarations are in config.go of the
\* same package; the shape used here is the one the specification gives:
\* Runtime has the API base URL and the deploy identifier, Static has
\* build metadata and flags.

\* APIBaseURL
KeyAPIBaseURL ==
    <<65, 80, 73, 66, 97, 115, 101, 85, 82, 76>>

\* DeployID
KeyDeployID ==
    <<68, 101, 112, 108, 111, 121, 73, 68>>

\* EncoreCompiler
KeyEncoreCompiler ==
    <<69, 110, 99, 111, 114, 101, 67, 111, 109, 112, 105, 108, 101, 114>>

\* Testing
KeyTesting ==
    <<84, 101, 115, 116, 105, 110, 103>>

\* xyz789
OverrideXYZ ==
    <<120, 121, 122, 55, 56, 57>>

\* abc123
OverrideABC ==
    <<97, 98, 99, 49, 50, 51>>

\* type Runtime struct
RuntimeFields ==
    <<[name |-> "APIBaseURL", key |-> KeyAPIBaseURL, kind |-> "string"],
      [name |-> "DeployID", key |-> KeyDeployID, kind |-> "string"]>>

\* type Static struct
StaticFields ==
    <<[name |-> "EncoreCompiler", key |-> KeyEncoreCompiler, kind |-> "string"],
      [name |-> "Testing", key |-> KeyTesting, kind |-> "bool"]>>

\* json.Marshal, as the deploy tooling applies it to a struct value to make
\* a payload.  A string is quoted with '"' and '\' escaped, control bytes
\* written as \n, \r, \t or \u00XX, and '<', '>', '&' as \u00XX.
HexDigit(n) == IF n < 10 THEN 48 + n ELSE 87 + n
MarshalByte(c) ==
    CASE c = 34 -> <<92, 34>>
      [] c = 92 -> <<92, 92>>
      [] c = 10 -> <<92, 110>>
      [] c = 13 -> <<92, 114>>
      [] c = 9 -> <<92, 116>>
      [] c < 32 \/ c \in {60, 62, 38} ->
            <<92, 117, 48, 48, HexDigit(c \div 16), HexDigit(c % 16)>>
      [] OTHER -> <<c>>

RECURSIVE MarshalBytes(_, _)
MarshalBytes(s, acc) ==
    IF s = <<>> THEN acc ELSE MarshalBytes(Tail(s), acc \o MarshalByte(Head(s)))

MarshalString(s) == <<34>> \o MarshalBytes(s, <<>>) \o <<34>>

MarshalField(f, v) ==
    MarshalString(f.key) \o <<58>>
    \o (IF f.kind = "string" THEN MarshalString(v[f.name])
        ELSE IF v[f.name] THEN LitTrue ELSE LitFalse)

RECURSIVE MarshalFields(_, _, _)
MarshalFields(fields, v, i) ==
    IF i > Len(fields) THEN <<>>
    ELSE (IF i > 1 THEN <<44>> ELSE <<>>) \o MarshalField(fields[i], v)
         \o MarshalFields(fields, v, i + 1)

Marshal(fields, v) == <<123>> \o MarshalFields(fields, v, 1) \o <<125>>

---------------------------------------------------------------------------
\* Inputs: the payloads a deploy tool may hand over (as bytes), the blobs
\* made from them, and every short blob over BlobAlphabet.

\* {"APIBaseURL":"https://api.example.com","DeployID":"abc123"}
PayloadFull ==
    <<123, 34, 65, 80, 73, 66, 97, 115, 101, 85, 82, 76, 34, 58, 34, 104,
    116, 116, 112, 115, 58, 47, 47, 97, 112, 105, 46, 101, 120, 97, 109,
    112, 108, 101, 46, 99, 111, 109, 34, 44, 34, 68, 101, 112, 108, 111,
    121, 73, 68, 34, 58, 34, 97, 98, 99, 49, 50, 51, 34, 125>>

\* {"APIBaseURL":"https://api.example.com"}
PayloadNoDeploy ==
    <<123, 34, 65, 80, 73, 66, 97, 115, 101, 85, 82, 76, 34, 58, 34, 104,
    116, 116, 112, 115, 58, 47, 47, 97, 112, 105, 46, 101, 120, 97, 109,
    112, 108, 101, 46, 99, 111, 109, 34, 125>>

\* {"DeployID":"abc123"}
PayloadNoURL ==
    <<123, 34, 68, 101, 112, 108, 111, 121, 73, 68, 34, 58, 34, 97, 98, 99,
    49, 50, 51, 34, 125>>

\* null
PayloadNull ==
    <<110, 117, 108, 108>>

\* {}
PayloadEmptyObj ==
    <<123, 125>>

\* {"APIBaseURL":"","DeployID":""}
PayloadEmptyStrs ==
    <<123, 34, 65, 80, 73, 66, 97, 115, 101, 85, 82, 76, 34, 58, 34, 34, 44,
    34, 68, 101, 112, 108, 111, 121, 73, 68, 34, 58, 34, 34, 125>>

\* {"APIBaseURL":"/v1?o=>>>&p=???","DeployID":"d~1"}
PayloadQuery ==
    <<123, 34, 65, 80, 73, 66, 97, 115, 101, 85, 82, 76, 34, 58, 34, 47,
    118, 49, 63, 111, 61, 62, 62, 62, 38, 112, 61, 63, 63, 63, 34, 44, 34,
    68, 101, 112, 108, 111, 121, 73, 68, 34, 58, 34, 100, 126, 49, 34, 125>>

\* {"APIBaseURL":"/v1?o=>>>&p=???","DeployID":"d~"}
PayloadQuery3 ==
    <<123, 34, 65, 80, 73, 66, 97, 115, 101, 85, 82, 76, 34, 58, 34, 47,
    118, 49, 63, 111, 61, 62, 62, 62, 38, 112, 61, 63, 63, 63, 34, 44, 34,
    68, 101, 112, 108, 111, 121, 73, 68, 34, 58, 34, 100, 126, 34, 125>>

\* {"apibaseurl":"//h:80/p","deployid":"d2"}
PayloadFoldKeys ==
    <<123, 34, 97, 112, 105, 98, 97, 115, 101, 117, 114, 108, 34, 58, 34,
    47, 47, 104, 58, 56, 48, 47, 112, 34, 44, 34, 100, 101, 112, 108, 111,
    121, 105, 100, 34, 58, 34, 100, 50, 34, 125>>

\* {"DeployID":null,"APIBaseURL":"/p#f"}
PayloadNullField ==
    <<123, 34, 68, 101, 112, 108, 111, 121, 73, 68, 34, 58, 110, 117, 108,
    108, 44, 34, 65, 80, 73, 66, 97, 115, 101, 85, 82, 76, 34, 58, 34, 47,
    112, 35, 102, 34, 125>>

\* {"DeployID":"a","DeployID":"b","X":[1,{"y":-2.5e3}]}
PayloadDupKey ==
    <<123, 34, 68, 101, 112, 108, 111, 121, 73, 68, 34, 58, 34, 97, 34, 44,
    34, 68, 101, 112, 108, 111, 121, 73, 68, 34, 58, 34, 98, 34, 44, 34, 88,
    34, 58, 91, 49, 44, 123, 34, 121, 34, 58, 45, 50, 46, 53, 101, 51, 125,
    93, 125>>

\*  {"APIBaseURL" : "mailto:a@b" }<LF>
PayloadSpaces ==
    <<32, 123, 34, 65, 80, 73, 66, 97, 115, 101, 85, 82, 76, 34, 32, 58, 32,
    34, 109, 97, 105, 108, 116, 111, 58, 97, 64, 98, 34, 32, 125, 10>>

\* {"APIBaseURL":"http://a\nb","DeployID":"abc123"}
PayloadCtlEsc ==
    <<123, 34, 65, 80, 73, 66, 97, 115, 101, 85, 82, 76, 34, 58, 34, 104,
    116, 116, 112, 58, 47, 47, 97, 92, 110, 98, 34, 44, 34, 68, 101, 112,
    108, 111, 121, 73, 68, 34, 58, 34, 97, 98, 99, 49, 50, 51, 34, 125>>

\* {"APIBaseURL":"http://a/\u007f","DeployID":"abc123"}
PayloadCtlU ==
    <<123, 34, 65, 80, 73, 66, 97, 115, 101, 85, 82, 76, 34, 58, 34, 104,
    116, 116, 112, 58, 47, 47, 97, 47, 92, 117, 48, 48, 55, 102, 34, 44, 34,
    68, 101, 112, 108, 111, 121, 73, 68, 34, 58, 34, 97, 98, 99, 49, 50, 51,
    34, 125>>

\* {"APIBaseURL":":bad","DeployID":"abc123"}
PayloadColon ==
    <<123, 34, 65, 80, 73, 66, 97, 115, 101, 85, 82, 76, 34, 58, 34, 58, 98,
    97, 100, 34, 44, 34, 68, 101, 112, 108, 111, 121, 73, 68, 34, 58, 34,
    97, 98, 99, 49, 50, 51, 34, 125>>

\* {"APIBaseURL":"a:b/c"}
PayloadSegColon ==
    <<123, 34, 65, 80, 73, 66, 97, 115, 101, 85, 82, 76, 34, 58, 34, 97, 58,
    98, 47, 99, 34, 125>>

\* {"APIBaseURL":"1a:b/c"}
PayloadNumSeg ==
    <<123, 34, 65, 80, 73, 66, 97, 115, 101, 85, 82, 76, 34, 58, 34, 49, 97,
    58, 98, 47, 99, 34, 125>>

\* {"APIBaseURL":"http://a b/","DeployID":"abc123"}
PayloadBadHost ==
    <<123, 34, 65, 80, 73, 66, 97, 115, 101, 85, 82, 76, 34, 58, 34, 104,
    116, 116, 112, 58, 47, 47, 97, 32, 98, 47, 34, 44, 34, 68, 101, 112,
    108, 111, 121, 73, 68, 34, 58, 34, 97, 98, 99, 49, 50, 51, 34, 125>>

\* {"APIBaseURL":"http://h:x1/"}
PayloadBadPort ==
    <<123, 34, 65, 80, 73, 66, 97, 115, 101, 85, 82, 76, 34, 58, 34, 104,
    116, 116, 112, 58, 47, 47, 104, 58, 120, 49, 47, 34, 125>>

\* {"APIBaseURL":"http://h/%zz"}
PayloadBadEsc ==
    <<123, 34, 65, 80, 73, 66, 97, 115, 101, 85, 82, 76, 34, 58, 34, 104,
    116, 116, 112, 58, 47, 47, 104, 47, 37, 122, 122, 34, 125>>

\* {"APIBaseURL":"http://a<LF>b"}
PayloadRawCtl ==
    <<123, 34, 65, 80, 73, 66, 97, 115, 101, 85, 82, 76, 34, 58, 34, 104,
    116, 116, 112, 58, 47, 47, 97, 10, 98, 34, 125>>

\* {"APIBaseURL":12,"DeployID":"abc123"}
PayloadNumURL ==
    <<123, 34, 65, 80, 73, 66, 97, 115, 101, 85, 82, 76, 34, 58, 49, 50, 44,
    34, 68, 101, 112, 108, 111, 121, 73, 68, 34, 58, 34, 97, 98, 99, 49, 50,
    51, 34, 125>>

\* {"APIBaseURL":"/p","DeployID":true}
PayloadBoolDep ==
    <<123, 34, 65, 80, 73, 66, 97, 115, 101, 85, 82, 76, 34, 58, 34, 47,
    112, 34, 44, 34, 68, 101, 112, 108, 111, 121, 73, 68, 34, 58, 116, 114,
    117, 101, 125>>

\* [1]
PayloadArray ==
    <<91, 49, 93>>

\* "abc"
PayloadString ==
    <<34, 97, 98, 99, 34>>

\* {"APIBaseURL":"x"
PayloadTrunc ==
    <<123, 34, 65, 80, 73, 66, 97, 115, 101, 85, 82, 76, 34, 58, 34, 120,
    34>>

\* {} x
PayloadTrail ==
    <<123, 125, 32, 120>>

\* {"EncoreCompiler":"v1","Testing":true}
PayloadStatic ==
    <<123, 34, 69, 110, 99, 111, 114, 101, 67, 111, 109, 112, 105, 108, 101,
    114, 34, 58, 34, 118, 49, 34, 44, 34, 84, 101, 115, 116, 105, 110, 103,
    34, 58, 116, 114, 117, 101, 125>>

\* {"Testing":"yes"}
PayloadStaticBad ==
    <<123, 34, 84, 101, 115, 116, 105, 110, 103, 34, 58, 34, 121, 101, 115,
    34, 125>>

\* {"APIBaseURL":":bad","DeployID":true}
PayloadBadBoth ==
    <<123, 34, 65, 80, 73, 66, 97, 115, 101, 85, 82, 76, 34, 58, 34, 58,
    98, 97, 100, 34, 44, 34, 68, 101, 112, 108, 111, 121, 73, 68, 34, 58,
    116, 114, 117, 101, 125>>

Payloads ==
    {PayloadFull,
     PayloadNoDeploy,
     PayloadNoURL,
     PayloadNull,
     PayloadEmptyObj,
     PayloadEmptyStrs,
     PayloadQuery,
     PayloadQuery3,
     PayloadFoldKeys,
     PayloadNullField,
     PayloadDupKey,
     PayloadSpaces,
     PayloadCtlEsc,
     PayloadCtlU,
     PayloadColon,
     PayloadSegColon,
     PayloadNumSeg,
     PayloadBadHost,
     PayloadBadPort,
     PayloadBadEsc,
     PayloadRawCtl,
     PayloadNumURL,
     PayloadBoolDep,
     PayloadArray,
     PayloadString,
     PayloadTrunc,
     PayloadTrail,
     PayloadStatic,
     PayloadStaticBad,
     PayloadBadBoth}


\* Struct values the deploy tooling may encode: the payload of a value is
\* its json.Marshal.
\* https://api.example.com
URLExample == <<104, 116, 116, 112, 115, 58, 47, 47, 97, 112, 105, 46, 101, 120, 97, 109, 112, 108, 101, 46, 99, 111, 109>>
\* /v1?o=>>>&p=???
URLQuery == <<47, 118, 49, 63, 111, 61, 62, 62, 62, 38, 112, 61, 63, 63, 63>>
\* :bad
URLBad == <<58, 98, 97, 100>>
\* a"b\c<TAB>
DeployQuoted == <<97, 34, 98, 92, 99, 9>>
\* <"v2">
CompilerQuoted == <<60, 34, 118, 50, 34, 62>>

RuntimeValues ==
    [APIBaseURL : {URLExample, URLQuery, URLBad, <<>>},
     DeployID : {OverrideABC, DeployQuoted, <<>>}]

StaticValues == [EncoreCompiler : {<<118, 49>>, CompilerQuoted}, Testing : BOOLEAN]

MarshalledPayloads ==
    {Marshal(RuntimeFields, v) : v \in RuntimeValues}
    \cup {Marshal(StaticFields, v) : v \in StaticValues}

\* base64.URLEncoding: URL-safe alphabet with padding
URLEncoding == [c62 |-> 45, c63 |-> 95, pad |-> 61]

\* 'e', '3', '0', '=', '-'
BlobAlphabet == {101, 51, 48, 61, 45}

ShortBlobs == UNION {[1..n -> BlobAlphabet] : n \in 1..MaxBlobLen}

EncodedBlobs ==
    UNION {{EncodeToString(StdEncoding, p),
            EncodeToString(RawURLEncoding, p),
            EncodeToString(URLEncoding, p),
            EncodeToString(StdEncoding, p) \o <<10>>} : p \in Payloads}
    \cup {EncodeToString(StdEncoding, p) : p \in MarshalledPayloads}

Blobs == {<<>>} \cup ShortBlobs \cup EncodedBlobs

\* values of the deploy ID override (the empty one: no override)
Overrides == {<<>>, OverrideXYZ, OverrideABC}

---------------------------------------------------------------------------
\* The process: it calls one loader, once, during initialization.

VARIABLES
    loader,     \* "runtime": ParseRuntime is called; "static": ParseStatic
    config,     \* argument config: the encoded blob
    deployID,   \* argument deployID of ParseRuntime (empty for ParseStatic)
    pc,         \* the statement the loader is at
    bytes,      \* local: the decoded bytes
    err,        \* local: the error of the last decode
    cfg,        \* local: var cfg Runtime / var cfg Static
    state,      \* "Unloaded", "Loaded" or "ProcessTerminated"
    ret,        \* <<c>> once the loader has returned &c, <<>> before
    fatal,      \* <<[msg, err]>> once log.Fatalln has printed, <<>> before
    steps       \* the statements executed so far, in order

vars == <<loader, config, deployID, pc, bytes, err, cfg, state, ret, fatal, steps>>

\* the messages of the log.Fatalln calls
MsgNoRuntime == "encore runtime: fatal error: no encore runtime config provided"
MsgDecodeRuntime == "encore runtime: fatal error: could not decode encore runtime config:"
MsgParseRuntime == "encore runtime: fatal error: could not parse encore runtime config:"
MsgURLRuntime ==
    "encore runtime: fatal error: could not parse api base url from encore runtime config:"
MsgNoStatic == "encore runtime: fatal error: no encore static config provided"
MsgDecodeStatic == "encore runtime: fatal error: could not decode encore static config:"
MsgParseStatic == "encore runtime: fatal error: could not parse encore static config:"

Init ==
    /\ loader \in {"runtime", "static"}
    /\ config \in Blobs
    /\ deployID \in (IF loader = "runtime" THEN Overrides ELSE {<<>>})
    /\ pc = (IF loader = "runtime" THEN "rt_empty" ELSE "st_empty")
    /\ bytes = <<>>
    /\ err = NoErr
    /\ cfg = ZeroValue(IF loader = "runtime" THEN RuntimeFields ELSE StaticFields)
    /\ state = "Unloaded"
    /\ ret = <<>>
    /\ fatal = <<>>
    /\ steps = <<>>

\* ParseRuntime, lines 23-25: the standard decoding std, or the URL-safe
\* unpadded one when the standard one failed
DecodeWithFallback(std, blob) ==
    IF std.err # NoErr THEN DecodeString(RawURLEncoding, blob) ELSE std

\* Fatalln that prints and lets the loader run on to its return statement
Fatalln_NoExit(msg, e) ==
    /\ fatal' = <<[msg |-> msg, err |-> e]>>
    /\ state' = "ProcessTerminated"
    /\ pc' = (IF loader = "runtime" THEN "rt_return" ELSE "st_return")
    /\ ret' = ret

\* log.Fatalln(msg, e): print the message, then os.Exit(1)
Fatalln(msg, e) ==
    /\ fatal' = <<[msg |-> msg, err |-> e]>>
    /\ state' = "ProcessTerminated"
    /\ pc' = "exited"
    /\ ret' = ret

\* the loader goes on to statement next
Goto(next) ==
    /\ pc' = next
    /\ UNCHANGED <<state, ret, fatal>>

\* return &cfg, with c the value of cfg at the return
Return(c) ==
    /\ ret' = <<c>>
    /\ state' = "Loaded"
    /\ pc' = "returned"
    /\ fatal' = fatal

\* RtCheckEmpty without the test for the empty blob
RtCheckEmpty_NoTest ==
    /\ pc = "rt_empty"
    /\ steps' = Append(steps, "rt_empty")
    /\ Goto("rt_std")
    /\ UNCHANGED <<loader, config, deployID, bytes, err, cfg>>

\* ParseRuntime, lines 12-14: if config == ""
RtCheckEmpty ==
    /\ pc = "rt_empty"
    /\ steps' = Append(steps, "rt_empty")
    /\ IF config = <<>> THEN Fatalln(MsgNoRuntime, NoErr) ELSE Goto("rt_std")
    /\ UNCHANGED <<loader, config, deployID, bytes, err, cfg>>

\* RtDecodeStd followed by the fallback whatever the standard decoding returned
RtDecodeStd_AlwaysFallback ==
    /\ pc = "rt_std"
    /\ steps' = Append(steps, "rt_std")
    /\ LET r == DecodeString(StdEncoding, config)
       IN /\ bytes' = r.bytes
          /\ err' = r.err
          /\ Goto("rt_rawurl")
    /\ UNCHANGED <<loader, config, deployID, cfg>>

\* ParseRuntime, line 23: bytes, err = base64.StdEncoding.DecodeString(config)
RtDecodeStd ==
    /\ pc = "rt_std"
    /\ steps' = Append(steps, "rt_std")
    /\ LET r == DecodeString(StdEncoding, config)
       IN /\ bytes' = r.bytes
          /\ err' = r.err
          /\ Goto(IF r.err # NoErr THEN "rt_rawurl" ELSE "rt_decode_check")
    /\ UNCHANGED <<loader, config, deployID, cfg>>

\* RtDecodeRawURL with the fallback decoding the standard encoding again
RtDecodeRawURL_StdAgain ==
    /\ pc = "rt_rawurl"
    /\ steps' = Append(steps, "rt_rawurl")
    /\ LET r == DecodeString(StdEncoding, config)
       IN /\ bytes' = r.bytes
          /\ err' = r.err
          /\ Goto("rt_decode_check")
    /\ UNCHANGED <<loader, config, deployID, cfg>>

\* ParseRuntime, line 24: bytes, err = base64.RawURLEncoding.DecodeString(config)
RtDecodeRawURL ==
    /\ pc = "rt_rawurl"
    /\ steps' = Append(steps, "rt_rawurl")
    /\ LET r == DecodeString(RawURLEncoding, config)
       IN /\ bytes' = r.bytes
          /\ err' = r.err
          /\ Goto("rt_decode_check")
    /\ UNCHANGED <<loader, config, deployID, cfg>>

\* RtDecodeCheck with the message of the parse failure
RtDecodeCheck_ParseMessage ==
    /\ pc = "rt_decode_check"
    /\ steps' = Append(steps, "rt_decode_check")
    /\ IF err # NoErr THEN Fatalln(MsgParseRuntime, err) ELSE Goto("rt_unmarshal")
    /\ UNCHANGED <<loader, config, deployID, bytes, err, cfg>>

\* RtDecodeCheck with the decode error dropped
RtDecodeCheck_ErrDropped ==
    /\ pc = "rt_decode_check"
    /\ steps' = Append(steps, "rt_decode_check")
    /\ Goto("rt_unmarshal")
    /\ UNCHANGED <<loader, config, deployID, bytes, err, cfg>>

\* ParseRuntime, lines 26-28: if err != nil
RtDecodeCheck ==
    /\ pc = "rt_decode_check"
    /\ steps' = Append(steps, "rt_decode_check")
    /\ IF err # NoErr THEN Fatalln(MsgDecodeRuntime, err) ELSE Goto("rt_unmarshal")
    /\ UNCHANGED <<loader, config, deployID, bytes, err, cfg>>

\* RtUnmarshal with the parse error forgiven when an override is supplied
RtUnmarshal_OverrideRescues ==
    /\ pc = "rt_unmarshal"
    /\ steps' = Append(steps, "rt_unmarshal")
    /\ LET r == Unmarshal(bytes, RuntimeFields)
       IN /\ cfg' = r.cfg
          /\ IF r.err # NoErr /\ deployID = <<>>
             THEN Fatalln(MsgParseRuntime, r.err)
             ELSE Goto("rt_url")
    /\ UNCHANGED <<loader, config, deployID, bytes, err>>

\* ParseRuntime, lines 30-33: json.Unmarshal(bytes, &cfg)
RtUnmarshal ==
    /\ pc = "rt_unmarshal"
    /\ steps' = Append(steps, "rt_unmarshal")
    /\ LET r == Unmarshal(bytes, RuntimeFields)
       IN /\ cfg' = r.cfg
          /\ IF r.err # NoErr THEN Fatalln(MsgParseRuntime, r.err) ELSE Goto("rt_url")
    /\ UNCHANGED <<loader, config, deployID, bytes, err>>

\* RtURLParse with the result of url.Parse dropped
RtURLParse_ErrDropped ==
    /\ pc = "rt_url"
    /\ steps' = Append(steps, "rt_url")
    /\ Goto("rt_override")
    /\ UNCHANGED <<loader, config, deployID, bytes, err, cfg>>

\* RtURLParse with the URL checked only when there is no override
RtURLParse_OnlyWithoutOverride ==
    /\ pc = "rt_url"
    /\ steps' = Append(steps, "rt_url")
    /\ LET e == URLParse(cfg.APIBaseURL)
       IN IF e # NoErr /\ deployID = <<>> THEN Fatalln(MsgURLRuntime, e)
          ELSE Goto("rt_override")
    /\ UNCHANGED <<loader, config, deployID, bytes, err, cfg>>

\* RtURLParse with the wrong field handed to url.Parse
RtURLParse_WrongField ==
    /\ pc = "rt_url"
    /\ steps' = Append(steps, "rt_url")
    /\ LET e == URLParse(cfg.DeployID)
       IN IF e # NoErr THEN Fatalln(MsgURLRuntime, e) ELSE Goto("rt_override")
    /\ UNCHANGED <<loader, config, deployID, bytes, err, cfg>>

\* ParseRuntime, lines 35-37: url.Parse(cfg.APIBaseURL)
RtURLParse ==
    /\ pc = "rt_url"
    /\ steps' = Append(steps, "rt_url")
    /\ LET e == URLParse(cfg.APIBaseURL)
       IN IF e # NoErr THEN Fatalln(MsgURLRuntime, e) ELSE Goto("rt_override")
    /\ UNCHANGED <<loader, config, deployID, bytes, err, cfg>>

\* RtOverride with the test for an empty override left out
RtOverride_Always ==
    /\ pc = "rt_override"
    /\ steps' = Append(steps, "rt_override")
    /\ cfg' = [cfg EXCEPT !.DeployID = deployID]
    /\ Goto("rt_return")
    /\ UNCHANGED <<loader, config, deployID, bytes, err>>

\* RtOverride with the override used only as a default for an empty DeployID
RtOverride_OnlyIfUnset ==
    /\ pc = "rt_override"
    /\ steps' = Append(steps, "rt_override")
    /\ cfg' = IF deployID # <<>> /\ cfg.DeployID = <<>>
              THEN [cfg EXCEPT !.DeployID = deployID] ELSE cfg
    /\ Goto("rt_return")
    /\ UNCHANGED <<loader, config, deployID, bytes, err>>

\* RtOverride storing a fresh Runtime that holds the override only
RtOverride_FreshStruct ==
    /\ pc = "rt_override"
    /\ steps' = Append(steps, "rt_override")
    /\ cfg' = IF deployID # <<>>
              THEN [ZeroValue(RuntimeFields) EXCEPT !.DeployID = deployID]
              ELSE cfg
    /\ Goto("rt_return")
    /\ UNCHANGED <<loader, config, deployID, bytes, err>>

\* ParseRuntime, lines 41-43: if deployID != "" { cfg.DeployID = deployID }
RtOverride ==
    /\ pc = "rt_override"
    /\ steps' = Append(steps, "rt_override")
    /\ cfg' = IF deployID # <<>> THEN [cfg EXCEPT !.DeployID = deployID] ELSE cfg
    /\ Goto("rt_return")
    /\ UNCHANGED <<loader, config, deployID, bytes, err>>

\* ParseRuntime, line 45: return &cfg
RtReturn ==
    /\ pc = "rt_return"
    /\ steps' = Append(steps, "rt_return")
    /\ Return(cfg)
    /\ UNCHANGED <<loader, config, deployID, bytes, err, cfg>>

\* ParseStatic, lines 50-52: if config == ""
StCheckEmpty ==
    /\ pc = "st_empty"
    /\ steps' = Append(steps, "st_empty")
    /\ IF config = <<>> THEN Fatalln(MsgNoStatic, NoErr) ELSE Goto("st_decode")
    /\ UNCHANGED <<loader, config, deployID, bytes, err, cfg>>

\* StDecode with the fallback of the runtime loader
StDecode_WithFallback ==
    /\ pc = "st_decode"
    /\ steps' = Append(steps, "st_decode")
    /\ LET r == DecodeWithFallback(DecodeString(StdEncoding, config), config)
       IN /\ bytes' = r.bytes
          /\ err' = r.err
          /\ IF r.err # NoErr THEN Fatalln(MsgDecodeStatic, r.err) ELSE Goto("st_unmarshal")
    /\ UNCHANGED <<loader, config, deployID, cfg>>

\* ParseStatic, lines 53-56: base64.StdEncoding.DecodeString(config)
StDecode ==
    /\ pc = "st_decode"
    /\ steps' = Append(steps, "st_decode")
    /\ LET r == DecodeString(StdEncoding, config)
       IN /\ bytes' = r.bytes
          /\ err' = r.err
          /\ IF r.err # NoErr THEN Fatalln(MsgDecodeStatic, r.err) ELSE Goto("st_unmarshal")
    /\ UNCHANGED <<loader, config, deployID, cfg>>

\* StUnmarshal with the error of json.Unmarshal dropped
StUnmarshal_ErrDropped ==
    /\ pc = "st_unmarshal"
    /\ steps' = Append(steps, "st_unmarshal")
    /\ cfg' = Unmarshal(bytes, StaticFields).cfg
    /\ Goto("st_return")
    /\ UNCHANGED <<loader, config, deployID, bytes, err>>

\* StUnmarshal followed by a check that EncoreCompiler is set
StUnmarshal_CompilerRequired ==
    /\ pc = "st_unmarshal"
    /\ steps' = Append(steps, "st_unmarshal")
    /\ LET r == Unmarshal(bytes, StaticFields)
       IN /\ cfg' = r.cfg
          /\ IF r.err # NoErr \/ r.cfg.EncoreCompiler = <<>>
             THEN Fatalln(MsgParseStatic, r.err)
             ELSE Goto("st_return")
    /\ UNCHANGED <<loader, config, deployID, bytes, err>>

\* ParseStatic, lines 57-60: json.Unmarshal(bytes, &cfg)
StUnmarshal ==
    /\ pc = "st_unmarshal"
    /\ steps' = Append(steps, "st_unmarshal")
    /\ LET r == Unmarshal(bytes, StaticFields)
       IN /\ cfg' = r.cfg
          /\ IF r.err # NoErr THEN Fatalln(MsgParseStatic, r.err) ELSE Goto("st_return")
    /\ UNCHANGED <<loader, config, deployID, bytes, err>>

\* ParseStatic, line 61: return &cfg
StReturn ==
    /\ pc = "st_return"
    /\ steps' = Append(steps, "st_return")
    /\ Return(cfg)
    /\ UNCHANGED <<loader, config, deployID, bytes, err, cfg>>

Next ==
    \/ RtCheckEmpty
    \/ RtDecodeStd
    \/ RtDecodeRawURL
    \/ RtDecodeCheck
    \/ RtUnmarshal
    \/ RtURLParse
    \/ RtOverride
    \/ RtReturn
    \/ StCheckEmpty
    \/ StDecode
    \/ StUnmarshal
    \/ StReturn

Spec == Init /\ [][Next]_vars

---------------------------------------------------------------------------
\* The loaders as functions of their arguments: the outcome of a call.
\* stage names the failing statement ("none" on success); cfg is the
\* returned value and is meaningful only when state is "Loaded".

Outcome(st, stage, c) == [state |-> st, stage |-> stage, cfg |-> c]

\* ParseRuntime from line 35 on, given the result of json.Unmarshal
RuntimeValidated(parsed, override) ==
    IF URLParse(parsed.cfg.APIBaseURL) # NoErr
    THEN Outcome("ProcessTerminated", "ValidationFailure", ZeroValue(RuntimeFields))
    ELSE Outcome("Loaded", "none",
                 IF override # <<>> THEN [parsed.cfg EXCEPT !.DeployID = override]
                 ELSE parsed.cfg)

\* ParseRuntime from line 31 on, given the result of json.Unmarshal
RuntimeParsed(parsed, override) ==
    IF parsed.err # NoErr
    THEN Outcome("ProcessTerminated", "ParseFailure", ZeroValue(RuntimeFields))
    ELSE RuntimeValidated(parsed, override)

\* ParseRuntime from line 26 on, given the result of the decoding
RuntimeDecoded(dec, override) ==
    IF dec.err # NoErr
    THEN Outcome("ProcessTerminated", "DecodeFailure", ZeroValue(RuntimeFields))
    ELSE RuntimeParsed(Unmarshal(dec.bytes, RuntimeFields), override)

\* func ParseRuntime(config, deployID string) *Runtime
ParseRuntime(blob, override) ==
    IF blob = <<>>
    THEN Outcome("ProcessTerminated", "MissingInput", ZeroValue(RuntimeFields))
    ELSE RuntimeDecoded(DecodeWithFallback(DecodeString(StdEncoding, blob), blob), override)

\* ParseStatic from line 58 on, given the result of json.Unmarshal
StaticParsed(parsed) ==
    IF parsed.err # NoErr
    THEN Outcome("ProcessTerminated", "ParseFailure", ZeroValue(StaticFields))
    ELSE Outcome("Loaded", "none", parsed.cfg)

\* ParseStatic from line 54 on, given the result of the decoding
StaticDecoded(dec) ==
    IF dec.err # NoErr
    THEN Outcome("ProcessTerminated", "DecodeFailure", ZeroValue(StaticFields))
    ELSE StaticParsed(Unmarshal(dec.bytes, StaticFields))

\* func ParseStatic(config string) *Static
ParseStatic(blob) ==
    IF blob = <<>>
    THEN Outcome("ProcessTerminated", "MissingInput", ZeroValue(StaticFields))
    ELSE StaticDecoded(DecodeString(StdEncoding, blob))

\* The failure kind (section 7 of the specification) a fatal message belongs to
StageOf(msg) ==
    CASE msg \in {MsgNoRuntime, MsgNoStatic} -> "MissingInput"
      [] msg \in {MsgDecodeRuntime, MsgDecodeStatic} -> "DecodeFailure"
      [] msg \in {MsgParseRuntime, MsgParseStatic} -> "ParseFailure"
      [] msg = MsgURLRuntime -> "ValidationFailure"

\* the failure kind of the run, "none" while nothing has failed
FailedStage == IF fatal = <<>> THEN "none" ELSE StageOf(fatal[1].msg)

Done == state # "Unloaded"

\* the run ended as the outcome o says
EndedAs(o) ==
    /\ state = o.state
    /\ FailedStage = o.stage
    /\ state = "Loaded" => ret = <<o.cfg>>

\* the two loaders agree with their step-by-step execution
OutcomeMatches ==
    Done => EndedAs(IF loader = "runtime" THEN ParseRuntime(config, deployID)
                    ELSE ParseStatic(config))

---------------------------------------------------------------------------
\* Properties of the loaders

\* what the two decodings make of the blob of this run
StdDecoded == DecodeString(StdEncoding, config)
RawURLDecoded == DecodeString(RawURLEncoding, config)

\* the blob is decodable by standard base64 or by URL-safe unpadded base64
Decodable == StdDecoded.err = NoErr \/ RawURLDecoded.err = NoErr

\* the decoded bytes of the blob: those of the standard decoding when the
\* blob is standard base64, those of the URL-safe unpadded decoding otherwise
DecodedBytes == IF StdDecoded.err = NoErr THEN StdDecoded.bytes ELSE RawURLDecoded.bytes

\* what the decoded bytes parse into, as a Runtime
Embedded == Unmarshal(DecodedBytes, RuntimeFields)

\* the statement s has been executed
Ran(s) == \E i \in 1..Len(steps) : steps[i] = s

\* C1: an empty blob ends either loader in ProcessTerminated at its first
\* statement: once the loader has taken a step the process is terminated for
\* the missing input, that step is the only one taken (no decode, parse,
\* validation or override statement runs) and nothing is returned.
C1_EmptyBlobTerminates ==
    (config = <<>> /\ steps # <<>>) =>
        /\ state = "ProcessTerminated"
        /\ FailedStage = "MissingInput"
        /\ steps \in {<<"rt_empty">>, <<"st_empty">>}
        /\ ret = <<>>

C1_Witness ==
    /\ loader = "runtime"
    /\ config = <<>>
    /\ deployID = OverrideXYZ
    /\ state = "ProcessTerminated"

\* the four stages of the runtime loader all pass on the blob of this run
C2_AllStagesPass ==
    /\ config # <<>>
    /\ Decodable
    /\ Embedded.err = NoErr
    /\ URLParse(Embedded.cfg.APIBaseURL) = NoErr

\* C2: the runtime loader returns a Runtime if and only if the blob is not
\* empty, is decodable by one of the two encodings, its decoded bytes parse
\* into a Runtime and the APIBaseURL parses as a URL; otherwise the process
\* is terminated and nothing is returned.
C2_LoadedIffAllStagesPass ==
    loader = "runtime" =>
        /\ Done => (state = "Loaded" <=> C2_AllStagesPass)
        /\ state = "Loaded" <=> ret # <<>>
        /\ ret # <<>> => ret = <<cfg>>

C2_Witness ==
    /\ loader = "runtime"
    /\ state = "ProcessTerminated"
    /\ FailedStage = "ValidationFailure"
    /\ cfg.DeployID = OverrideABC
    /\ ret = <<>>

\* if the outcome o is a returned Runtime, this run returned the same one
C3_AcceptedAs(o) == o.state = "Loaded" => (state = "Loaded" /\ ret = <<o.cfg>>)

\* C3: a payload that the runtime loader accepts in standard base64 is also
\* accepted in URL-safe unpadded base64 when that blob is not standard
\* base64: the fallback decoding runs and the returned Runtime is the one
\* the standard encoding gives, for the same override.
C3_FallbackEquivalent ==
    (loader = "runtime" /\ Done /\ StdDecoded.err # NoErr) =>
        \A p \in Payloads :
            config = EncodeToString(RawURLEncoding, p) =>
                /\ Ran("rt_rawurl")
                /\ C3_AcceptedAs(ParseRuntime(EncodeToString(StdEncoding, p), deployID))

C3_Witness ==
    /\ loader = "runtime"
    /\ state = "Loaded"
    /\ config = EncodeToString(RawURLEncoding, PayloadQuery)
    /\ StdDecoded.err # NoErr
    /\ Ran("rt_rawurl")

\* C4: in the runtime loader a non-empty blob that neither encoding decodes
\* ends in ProcessTerminated at the decode check, with the decode error in
\* the message; json.Unmarshal, url.Parse and the override never run.
C4_UndecodableTerminates ==
    (loader = "runtime" /\ config # <<>> /\ ~Decodable) =>
        /\ state # "Loaded"
        /\ ~Ran("rt_unmarshal") /\ ~Ran("rt_url") /\ ~Ran("rt_override")
        /\ Ran("rt_decode_check") =>
              /\ state = "ProcessTerminated"
              /\ fatal = <<[msg |-> MsgDecodeRuntime, err |-> RawURLDecoded.err]>>

C4_Witness ==
    /\ loader = "runtime"
    /\ config = EncodeToString(URLEncoding, PayloadQuery)
    /\ ~Decodable
    /\ state = "ProcessTerminated"
    /\ FailedStage = "DecodeFailure"

\* C5: when the runtime loader returns, the DeployID of the result is the
\* override if the override is not empty, and the DeployID decoded from the
\* blob if it is.
C5_DeployIDOverride ==
    (loader = "runtime" /\ state = "Loaded") =>
        ret[1].DeployID = (IF deployID # <<>> THEN deployID ELSE Embedded.cfg.DeployID)

\* an override over a different embedded DeployID
C5_Witness ==
    /\ loader = "runtime"
    /\ state = "Loaded"
    /\ deployID = OverrideXYZ
    /\ Embedded.cfg.DeployID = OverrideABC
    /\ ret[1].DeployID = OverrideXYZ

\* C6: in the runtime loader a blob that decodes and parses but whose
\* APIBaseURL is not a valid URL ends in ProcessTerminated at the URL check,
\* whatever the override is; nothing is returned.
C6_InvalidURLTerminates ==
    (/\ loader = "runtime" /\ config # <<>> /\ Decodable
     /\ Embedded.err = NoErr
     /\ URLParse(Embedded.cfg.APIBaseURL) # NoErr) =>
        /\ state # "Loaded" /\ ret = <<>>
        /\ ~Ran("rt_override")
        /\ Done => FailedStage = "ValidationFailure"

\* a control character in the URL, with an override
C6_Witness ==
    /\ loader = "runtime"
    /\ state = "ProcessTerminated"
    /\ FailedStage = "ValidationFailure"
    /\ ContainsCTLByte(cfg.APIBaseURL)
    /\ deployID = OverrideXYZ

\* C7 as stated: whenever the runtime loader has reached Loaded the result
\* has a non-empty APIBaseURL and a non-empty DeployID, and the APIBaseURL
\* parses as a URL.
C7_FieldsNonEmpty ==
    (loader = "runtime" /\ state = "Loaded") =>
        /\ ret[1].APIBaseURL # <<>>
        /\ ret[1].DeployID # <<>>
        /\ URLParse(ret[1].APIBaseURL) = NoErr

\* C7, amended: whenever the runtime loader has reached Loaded the
\* APIBaseURL of the result parses as a URL; the APIBaseURL is empty exactly
\* when the blob embeds none, and the DeployID is empty exactly when the
\* override is empty and the blob embeds none.
C7_URLValidFieldsAsEmbedded ==
    (loader = "runtime" /\ state = "Loaded") =>
        /\ URLParse(ret[1].APIBaseURL) = NoErr
        /\ ret[1].APIBaseURL = <<>> <=> Embedded.cfg.APIBaseURL = <<>>
        /\ ret[1].DeployID = <<>> <=> (deployID = <<>> /\ Embedded.cfg.DeployID = <<>>)

\* the payload null, accepted with both fields empty
C7_Witness ==
    /\ loader = "runtime"
    /\ state = "Loaded"
    /\ DecodedBytes = PayloadNull
    /\ deployID = <<>>
    /\ ret = <<[APIBaseURL |-> <<>>, DeployID |-> <<>>]>>

\* C8: the static loader decodes standard base64 only: a non-empty blob
\* that is not standard base64 ends in ProcessTerminated at the decode
\* statement, also when it is URL-safe unpadded base64 of a payload that the
\* runtime loader accepts.
C8_StaticStdOnly ==
    (loader = "static" /\ config # <<>> /\ StdDecoded.err # NoErr) =>
        /\ state # "Loaded" /\ ret = <<>>
        /\ ~Ran("st_unmarshal")
        /\ Ran("st_decode") =>
              /\ state = "ProcessTerminated"
              /\ fatal = <<[msg |-> MsgDecodeStatic, err |-> StdDecoded.err]>>

C8_Witness ==
    /\ loader = "static"
    /\ state = "ProcessTerminated"
    /\ FailedStage = "DecodeFailure"
    /\ config = EncodeToString(RawURLEncoding, PayloadStatic)
    /\ RawURLDecoded.err = NoErr
    /\ ParseRuntime(config, <<>>).state = "Loaded"

\* a step of a loader: taken in Unloaded only, at a statement not executed
\* before, exposing a result exactly when it ends in Loaded
C9_Step ==
    /\ state = "Unloaded"
    /\ state' \in {"Unloaded", "Loaded", "ProcessTerminated"}
    /\ ret = <<>>
    /\ ret' # <<>> <=> state' = "Loaded"
    /\ steps' = Append(steps, pc)
    /\ ~Ran(pc)

\* C9: each loader moves once, from Unloaded to Loaded or to
\* ProcessTerminated, and stays there: no step is taken outside Unloaded, no
\* statement is executed twice, a result is exposed only together with
\* Loaded, and the loader is at a statement of its body exactly while it is
\* in Unloaded (it has exited or returned exactly in the two other states).
C9_SingleTransition ==
    /\ [][C9_Step]_vars
    /\ [](state = "ProcessTerminated" <=> pc = "exited")
    /\ [](state = "Loaded" <=> pc = "returned")

C9_Witness ==
    /\ loader = "static"
    /\ state = "Loaded"
    /\ ret = <<[EncoreCompiler |-> <<118, 49>>, Testing |-> TRUE]>>
    /\ pc = "returned"

\* what json.Unmarshal reports for the decoded bytes, in the loader of this run
C10_ParseErr ==
    IF loader = "runtime" THEN Embedded.err
    ELSE Unmarshal(StdDecoded.bytes, StaticFields).err

\* the blob decodes, in the loader of this run
C10_Decodes == IF loader = "runtime" THEN Decodable ELSE StdDecoded.err = NoErr

\* C10: in either loader a non-empty blob that decodes but whose bytes do
\* not parse into the struct ends in ProcessTerminated at json.Unmarshal; in
\* the runtime loader url.Parse and the override have not run.
C10_ParseFailureTerminates ==
    (config # <<>> /\ C10_Decodes /\ C10_ParseErr # NoErr) =>
        /\ state # "Loaded" /\ ret = <<>>
        /\ ~Ran("rt_url") /\ ~Ran("rt_override")
        /\ (Ran("rt_unmarshal") \/ Ran("st_unmarshal")) =>
              /\ state = "ProcessTerminated"
              /\ FailedStage = "ParseFailure"
              /\ fatal[1].err = C10_ParseErr

\* a value of the wrong kind for a field of Runtime, with an override
C10_Witness ==
    /\ loader = "runtime"
    /\ deployID = OverrideXYZ
    /\ state = "ProcessTerminated"
    /\ fatal = <<[msg |-> MsgParseRuntime, err |-> UnmarshalTypeError]>>
    /\ steps = <<"rt_empty", "rt_std", "rt_rawurl", "rt_decode_check", "rt_unmarshal">>

\* the standard base64 blob of every struct value, with the value (for
\* Runtime: the values whose APIBaseURL is a valid URL)
RoundTripRuntime ==
    {<<EncodeToString(StdEncoding, Marshal(RuntimeFields, v)), v>> :
        v \in {w \in RuntimeValues : URLParse(w.APIBaseURL) = NoErr}}
RoundTripStatic ==
    {<<EncodeToString(StdEncoding, Marshal(StaticFields, v)), v>> : v \in StaticValues}

\* C11: round trip: loading the standard base64 encoding of the payload of a
\* struct value, with no override, returns that value, field by field (for
\* Runtime: when the APIBaseURL of the value is a valid URL).
C11_RoundTrip ==
    (Done /\ deployID = <<>>) =>
        \A bv \in (IF loader = "runtime" THEN RoundTripRuntime ELSE RoundTripStatic) :
            config = bv[1] => (state = "Loaded" /\ ret = <<bv[2]>>)

\* the scenario of the specification
C11_Witness ==
    /\ loader = "runtime"
    /\ deployID = <<>>
    /\ config = EncodeToString(StdEncoding, PayloadFull)
    /\ PayloadFull = Marshal(RuntimeFields, [APIBaseURL |-> URLExample, DeployID |-> OverrideABC])
    /\ state = "Loaded"
    /\ ret = <<[APIBaseURL |-> URLExample, DeployID |-> OverrideABC]>>

\* the first stage, in the order MissingInput, DecodeFailure, ParseFailure,
\* ValidationFailure, that fails on the blob of this run in the loader of
\* this run ("none" when all pass; the static loader has no validation)
C12_FirstFailing ==
    IF config = <<>> THEN "MissingInput"
    ELSE IF ~C10_Decodes THEN "DecodeFailure"
    ELSE IF C10_ParseErr # NoErr THEN "ParseFailure"
    ELSE IF loader = "runtime" /\ URLParse(Embedded.cfg.APIBaseURL) # NoErr
    THEN "ValidationFailure"
    ELSE "none"

\* the message of the loader of this run for a failing stage
C12_Message(stage) ==
    CASE stage = "MissingInput" -> IF loader = "runtime" THEN MsgNoRuntime ELSE MsgNoStatic
      [] stage = "DecodeFailure" ->
            IF loader = "runtime" THEN MsgDecodeRuntime ELSE MsgDecodeStatic
      [] stage = "ParseFailure" ->
            IF loader = "runtime" THEN MsgParseRuntime ELSE MsgParseStatic
      [] stage = "ValidationFailure" -> MsgURLRuntime
      [] OTHER -> "none"

\* C12: a failing load terminates with one message, and the message is that
\* of the first failing stage in the order MissingInput, DecodeFailure,
\* ParseFailure, ValidationFailure; it carries the underlying error of that
\* stage (none for a missing input); nothing is printed otherwise.
C12_FirstFailureReported ==
    /\ Len(fatal) <= 1
    /\ fatal # <<>> <=> state = "ProcessTerminated"
    /\ state = "ProcessTerminated" =>
          /\ C12_FirstFailing # "none"
          /\ fatal[1].msg = C12_Message(C12_FirstFailing)
          /\ FailedStage = C12_FirstFailing
          /\ fatal[1].err = NoErr <=> C12_FirstFailing = "MissingInput"

\* a parse failure reported for a payload whose URL would fail validation too
C12_Witness ==
    /\ loader = "runtime"
    /\ DecodedBytes = PayloadBadBoth
    /\ URLParse(cfg.APIBaseURL) # NoErr
    /\ state = "ProcessTerminated"
    /\ fatal = <<[msg |-> MsgParseRuntime, err |-> UnmarshalTypeError]>>

\* C13: in the runtime loader the standard decoding is the first statement
\* after the empty check; the URL-safe unpadded decoding runs after it, and
\* only (and always) when the standard decoding failed; when the standard
\* decoding succeeded the fallback never runs and the bytes held, which are
\* the ones parsed, are those of the standard decoding.
C13_DecodeOrder ==
    loader = "runtime" =>
        /\ Len(steps) >= 2 => (steps[1] = "rt_empty" /\ steps[2] = "rt_std")
        /\ Ran("rt_rawurl") =>
              /\ StdDecoded.err # NoErr
              /\ Len(steps) >= 3 /\ steps[3] = "rt_rawurl"
        /\ (Ran("rt_decode_check") /\ StdDecoded.err # NoErr) => Ran("rt_rawurl")
        /\ (Ran("rt_std") /\ StdDecoded.err = NoErr) =>
              /\ ~Ran("rt_rawurl")
              /\ bytes = StdDecoded.bytes
        /\ (Ran("rt_unmarshal") /\ ~Ran("rt_override")) =>
              cfg = Unmarshal(bytes, RuntimeFields).cfg

\* a blob that both encodings decode, loaded from its standard decoding
\* without the fallback being run
C13_Witness ==
    /\ loader = "runtime"
    /\ StdDecoded.err = NoErr
    /\ RawURLDecoded.err = NoErr
    /\ state = "Loaded"
    /\ steps = <<"rt_empty", "rt_std", "rt_decode_check", "rt_unmarshal",
                 "rt_url", "rt_override", "rt_return">>
    /\ bytes = StdDecoded.bytes

\* what the standard decoding of the blob parses into, as a Static
C14_Parsed == Unmarshal(StdDecoded.bytes, StaticFields)

\* C14: the static loader, once done with a non-empty blob that is standard
\* base64 and whose decoded bytes parse as a Static, has returned the parsed
\* value unchanged, whatever its fields hold, after the empty check, the
\* decoding and the parsing only (no URL check and no override statement).
C14_StaticNoValidation ==
    (/\ loader = "static" /\ Done
     /\ config # <<>>
     /\ StdDecoded.err = NoErr
     /\ C14_Parsed.err = NoErr) =>
        /\ state = "Loaded"
        /\ ret = <<C14_Parsed.cfg>>
        /\ steps = <<"st_empty", "st_decode", "st_unmarshal", "st_return">>

\* a Static with no field set, returned from a blob that the runtime loader
\* rejects for its APIBaseURL
C14_Witness ==
    /\ loader = "static"
    /\ state = "Loaded"
    /\ ret = <<ZeroValue(StaticFields)>>
    /\ ParseRuntime(config, <<>>).stage = "ValidationFailure"

\* the override statement leaves every field but DeployID as it was, and
\* the whole value as it was when the override is empty; no other statement
\* after the parsing changes the value
C15_Step ==
    /\ pc = "rt_override" =>
          /\ DOMAIN cfg' = DOMAIN cfg
          /\ \A f \in DOMAIN cfg \ {"DeployID"} : cfg'[f] = cfg[f]
          /\ deployID = <<>> => cfg' = cfg
    /\ pc \in {"rt_url", "rt_return"} => cfg' = cfg

\* the returned Runtime against the one decoded from the blob
C15_Returned ==
    (loader = "runtime" /\ state = "Loaded") =>
        /\ DOMAIN ret[1] = DOMAIN Embedded.cfg
        /\ \A f \in DOMAIN Embedded.cfg \ {"DeployID"} : ret[1][f] = Embedded.cfg[f]
        /\ deployID = <<>> => ret[1] = Embedded.cfg

\* C15: frame of the override in the runtime loader: the override statement
\* changes no field but DeployID, so APIBaseURL and every other field of the
\* returned Runtime equal the values decoded from the blob for every
\* override, and with an empty override the returned Runtime is the decoded
\* one.
C15_OverrideFrame == [][C15_Step]_vars /\ []C15_Returned

\* an override applied over a decoded Runtime with an APIBaseURL
C15_Witness ==
    /\ loader = "runtime"
    /\ state = "Loaded"
    /\ deployID # <<>>
    /\ Embedded.cfg.APIBaseURL # <<>>
    /\ ret[1] # Embedded.cfg
    /\ ret[1].APIBaseURL = Embedded.cfg.APIBaseURL

\* the run ended in the state, and at the stage, of the outcome o
C16_SameEnd(o) == state = o.state /\ FailedStage = o.stage

\* C16: in the runtime loader the override statement runs only after the
\* empty check, the decoding, the parsing and the URL check have run and
\* passed, and until it runs the Runtime held is the decoded one; the state a
\* run ends in, and the stage it failed at, are those the blob gives with
\* every override value, the empty one included.
C16_OverrideAfterAllStages ==
    loader = "runtime" =>
        /\ Ran("rt_override") =>
              /\ C12_FirstFailing = "none"
              /\ \E i \in 1..Len(steps) :
                    /\ steps[i] = "rt_override"
                    /\ i >= 5
                    /\ steps[1] = "rt_empty"
                    /\ steps[i - 3] = "rt_decode_check"
                    /\ steps[i - 2] = "rt_unmarshal"
                    /\ steps[i - 1] = "rt_url"
        /\ (Ran("rt_unmarshal") /\ ~Ran("rt_override")) => cfg = Embedded.cfg
        /\ Done => \A d \in Overrides : C16_SameEnd(ParseRuntime(config, d))

\* an override supplied with a blob that fails to parse: the run terminated
\* at the parsing and the override statement never ran
C16_Witness ==
    /\ loader = "runtime"
    /\ deployID = OverrideABC
    /\ state = "ProcessTerminated"
    /\ FailedStage = "ParseFailure"
    /\ ParseRuntime(config, <<>>).stage = "ParseFailure"
    /\ ~Ran("rt_override")

====
